---- MODULE Spec2Model ----
(***************************************************************************)
(* create-hana: one generation pass of the React project generator over a  *)
(* shared ProjectContext (file map, package.json object, two Editors).     *)
(*                                                                         *)
(* reactGenerator.generate and its helpers are translated statement by     *)
(* statement from the generator source.  A JavaScript exception is a       *)
(* context whose err field is set: every later statement of the handler    *)
(* is skipped, the mutations made before the throw stay.                   *)
(*                                                                         *)
(* The Editor classes (ViteConfigEditor, MainEditor) and the orchestrator  *)
(* are not part of the available source; addImport, addVitePlugin, render  *)
(* and the pass order follow the design document.                          *)
(***************************************************************************)
EXTENDS Naturals, Sequences, FiniteSets, TLC

VARIABLES
    config,            \* ProjectContext.config
    projectDir,        \* ProjectContext.projectDir
    cwd,               \* ProjectContext.cwd
    fileExtension,     \* ProjectContext.fileExtension
    packageJson,       \* ProjectContext.packageJson
    files,             \* ProjectContext.files
    viteConfigEditor,  \* ProjectContext.viteConfigEditor (optional)
    mainEditor,        \* ProjectContext.mainEditor (optional)
    phase,             \* position of the generation pass
    err,               \* the error the pass ended with, if any
    adds,              \* number of Editor calls made by other generators
    lastCall           \* the latest of those calls

vars == <<config, projectDir, cwd, fileExtension, packageJson, files,
          viteConfigEditor, mainEditor, phase, err, adds, lastCall>>

ctxVars == <<config, projectDir, cwd, fileExtension>>

-----------------------------------------------------------------------------
(* Bounds *)

\* Editor calls made by generators other than the React generator in a pass.
MaxAdds == 1

-----------------------------------------------------------------------------
(* Values *)

\* JavaScript's undefined, for optional string fields.
Undefined == "undefined"

ProjectTypes == {Undefined, "node", "react", "vue"}

COMMON_LANGUAGE_OPTIONS == {"typescript", "javascript"}

\* "webpack" stands for any build tool other than vite.
BuildTools == {Undefined, "vite", "webpack"}

CssFrameworks == {Undefined, "none", "tailwindcss", "unocss"}

CssPreprocessors == {Undefined, "less", "scss"}

RoutingLibraries == {Undefined, "react-router"}

TargetDirs == {Undefined, "my-app"}

\* The fields every project type carries.
CommonConfig == [language : COMMON_LANGUAGE_OPTIONS, targetDir : TargetDirs]

\* The fields of a React project; undefined under any other project type.
ReactProjectConfig ==
    [buildTool : BuildTools,
     cssFramework : CssFrameworks,
     cssPreprocessor : CssPreprocessors,
     routingLibrary : RoutingLibraries]

NoReactFields ==
    [buildTool |-> Undefined, cssFramework |-> Undefined,
     cssPreprocessor |-> Undefined, routingLibrary |-> Undefined]

MakeConfig(projectType, common, specific) ==
    [projectType |-> projectType,
     language |-> common.language,
     targetDir |-> common.targetDir,
     buildTool |-> specific.buildTool,
     cssFramework |-> specific.cssFramework,
     cssPreprocessor |-> specific.cssPreprocessor,
     routingLibrary |-> specific.routingLibrary]

\* Discriminated union keyed by projectType.
Config ==
    {MakeConfig("react", c, r) : c \in CommonConfig, r \in ReactProjectConfig}
        \cup {MakeConfig(t, c, NoReactFields) :
                t \in ProjectTypes \ {"react"}, c \in CommonConfig}

\* Editor target keys used by the generators.
Targets == {"viteConfig", "main"}

NoError == [kind |-> "none", value |-> ""]

NoCall == [op |-> "none", editor |-> "", key |-> "", arg |-> ""]

-----------------------------------------------------------------------------
(* JavaScript objects with string keys: insertion-ordered key/value pairs. *)

EmptyObject == <<>>

HasKey(obj, k) == \E i \in 1..Len(obj) : obj[i][1] = k

Get(obj, k) == obj[CHOOSE i \in 1..Len(obj) : obj[i][1] = k][2]

Keys(obj) == {obj[i][1] : i \in 1..Len(obj)}

\* obj[k] = v: an existing key keeps its position, a new key is appended.
SetKey(obj, k, v) ==
    IF HasKey(obj, k)
    THEN [i \in 1..Len(obj) |-> IF obj[i][1] = k THEN <<k, v>> ELSE obj[i]]
    ELSE Append(obj, <<k, v>>)

\* An optional object-valued field.
Absent == [defined |-> FALSE, entries |-> EmptyObject]

Defined(obj) == [defined |-> TRUE, entries |-> obj]

\* field || {}
OrEmpty(field) == IF field.defined THEN field ELSE Defined(EmptyObject)

\* context.files[path] = content
PutFile(fs, path, content) ==
    [p \in DOMAIN fs \cup {path} |-> IF p = path THEN content ELSE fs[p]]

NoFiles == [p \in {} |-> ""]

-----------------------------------------------------------------------------
(* Source-file Editor: per target key, an ordered import set and an        *)
(* ordered plugin set; rendered once, then immutable.                      *)

Contains(seq, s) == \E i \in 1..Len(seq) : seq[i] = s

NoDuplicates(seq) == \A i, j \in 1..Len(seq) : seq[i] = seq[j] => i = j

EmptyStore == [k \in Targets |-> [imports |-> <<>>, plugins |-> <<>>]]

EmptyOutput == [k \in Targets |-> ""]

\* An Editor as constructed with the context.
NewEditor ==
    [present |-> TRUE, rendered |-> FALSE, store |-> EmptyStore,
     output |-> EmptyOutput]

\* context.viteConfigEditor / context.mainEditor left undefined.
NoEditor ==
    [present |-> FALSE, rendered |-> FALSE, store |-> EmptyStore,
     output |-> EmptyOutput]

\* Mutant: the duplicate check is dropped.
AddUnique_Always(seq, s) == Append(seq, s)

\* Append unless the exact string is already there.
AddUnique(seq, s) == IF Contains(seq, s) THEN seq ELSE Append(seq, s)

\* Mutant: a rendered editor still accepts imports.
addImport_IgnoresRendered(editor, key, statement) ==
    [editor EXCEPT !.store[key].imports = AddUnique(@, statement)]

addImport(editor, key, statement) ==
    IF editor.rendered
    THEN editor
    ELSE [editor EXCEPT !.store[key].imports = AddUnique(@, statement)]

addVitePlugin(editor, key, expression) ==
    IF editor.rendered
    THEN editor
    ELSE [editor EXCEPT !.store[key].plugins = AddUnique(@, expression)]

RECURSIVE Join(_, _)
Join(seq, sep) ==
    IF Len(seq) = 0 THEN ""
    ELSE IF Len(seq) = 1 THEN seq[1]
    ELSE seq[1] \o sep \o Join(Tail(seq), sep)

\* The two reserved insertion points of a base template.
ImportsMarker == "{{imports}}"

PluginsMarker == "{{plugins}}"

\* Base template of a target file, as the parts around its insertion points.
BaseTemplate(key) ==
    IF key = "viteConfig"
    THEN <<"import { defineConfig } from 'vite'\n", ImportsMarker,
           "\nexport default defineConfig({ plugins: [", PluginsMarker, "] })\n">>
    ELSE <<ImportsMarker, "\n", PluginsMarker, "\n">>

RECURSIVE Substitute(_, _)
Substitute(parts, fragments) ==
    IF Len(parts) = 0 THEN ""
    ELSE (IF parts[1] = ImportsMarker THEN Join(fragments.imports, "\n")
          ELSE IF parts[1] = PluginsMarker THEN Join(fragments.plugins, ", ")
          ELSE parts[1]) \o Substitute(Tail(parts), fragments)

\* Serialize every target's fragments into its template; the store is kept
\* and the editor refuses writes from then on.
render(editor) ==
    IF ~editor.present \/ editor.rendered
    THEN editor
    ELSE [editor EXCEPT
            !.rendered = TRUE,
            !.output = [k \in Targets |-> Substitute(BaseTemplate(k), editor.store[k])]]

-----------------------------------------------------------------------------
(* Template functions *)

getFileExtension(language) == IF language = "typescript" THEN ".ts" ELSE ".js"

generateAppFile == "function App() { return (<h1>Hello, vite + react</h1>) }\nexport default App\n"

generateMainFile(appFileName) ==
    "import { createRoot } from 'react-dom/client'\nimport App from './"
        \o appFileName \o "'\n"

generateCounterFile == "import { useState } from 'react'\nexport function Counter() {}\n"

generateViteEnvFile == "/// <reference types=\"vite/client\" />\n"

generateGitignore == "# Logs\nlogs\nnode_modules/\ndist\n"

generateHanaLogo == "<svg xmlns=\"http://www.w3.org/2000/svg\"></svg>\n"

generateReadmeTemplate(projectType, projectName, description) ==
    "# " \o projectName \o "\n\n"
        \o (IF description # "" THEN description
            ELSE "A " \o projectType \o " project")
        \o "\n\n## License\n\nMIT\n"

generateHtmlTemplate(title, mainScriptPath) ==
    "<title>" \o title \o "</title><script type=\"module\" src=\""
        \o mainScriptPath \o "\"></script>\n"

generateUnoCssConfig == "import { defineConfig } from 'unocss'\nexport default defineConfig({})\n"

generateReactRouterIndex == "import { createBrowserRouter } from \"react-router\"\n"

generateDefaultPage == "export default function Home() {}\n"

-----------------------------------------------------------------------------
(* Statements of a generator over the context c; after a throw (c.err set) *)
(* the rest of the handler does not run.                                   *)

ValidationError(value) == [kind |-> "validation", value |-> value]

\* Calling a method on an undefined editor (the non-null assertion is erased).
TypeError == [kind |-> "TypeError", value |-> Undefined]

\* An Editor write after render.
UsageError == [kind |-> "usage", value |-> "rendered"]

Thrown(c) == c.err.kind # "none"

Throw(c, e) == IF Thrown(c) THEN c ELSE [c EXCEPT !.err = e]

\* a || b on strings
Truthy(s) == s # Undefined /\ s # ""

\* context.files[path] = content
WriteFile(c, path, content) ==
    IF Thrown(c) THEN c ELSE [c EXCEPT !.files = PutFile(@, path, content)]

\* context.<editor>!.addImport(key, statement)
CallAddImport(c, editor, key, statement) ==
    IF Thrown(c) THEN c
    ELSE IF ~c[editor].present THEN Throw(c, TypeError)
    ELSE [c EXCEPT ![editor] = addImport(@, key, statement),
                   !.err = IF c[editor].rendered THEN UsageError ELSE @]

\* context.<editor>!.addVitePlugin(key, expression)
CallAddVitePlugin(c, editor, key, expression) ==
    IF Thrown(c) THEN c
    ELSE IF ~c[editor].present THEN Throw(c, TypeError)
    ELSE [c EXCEPT ![editor] = addVitePlugin(@, key, expression),
                   !.err = IF c[editor].rendered THEN UsageError ELSE @]

\* Mutant: devDependencies is replaced by a fresh object instead of merged into.
EnsureDevDependencies_Replaces(c) ==
    IF Thrown(c) THEN c
    ELSE [c EXCEPT !.packageJson.devDependencies = Defined(EmptyObject)]

\* packageJson.devDependencies = packageJson.devDependencies || {}
EnsureDevDependencies(c) ==
    IF Thrown(c) THEN c
    ELSE [c EXCEPT !.packageJson.devDependencies = OrEmpty(@)]

\* packageJson.devDependencies[name] = version
SetDevDependency(c, name, version) ==
    IF Thrown(c) THEN c
    ELSE [c EXCEPT !.packageJson.devDependencies.entries = SetKey(@, name, version)]

\* packageJson.dependencies = packageJson.dependencies || {}
EnsureDependencies(c) ==
    IF Thrown(c) THEN c
    ELSE [c EXCEPT !.packageJson.dependencies = OrEmpty(@)]

\* packageJson.dependencies[name] = version
SetDependency(c, name, version) ==
    IF Thrown(c) THEN c
    ELSE [c EXCEPT !.packageJson.dependencies.entries = SetKey(@, name, version)]

-----------------------------------------------------------------------------
(* Fragments and versions written by the React generator *)

ReactImport == "import react from '@vitejs/plugin-react'"

ReactPlugin == "react()"

TailwindImport == "import tailwindcss from '@tailwindcss/vite'"

TailwindPlugin == "tailwindcss()"

GlobalCssImport == "import './styles/global.css'"

UnoImport == "import UnoCSS from 'unocss/vite'"

UnoPlugin == "UnoCSS()"

UnoVirtualImport == "import 'virtual:uno.css'"

-----------------------------------------------------------------------------
(* Handle CSS Framework option *)

\* Mutant: the tailwindcss() plugin registration is left out.
cssFrameworkTailwind_NoPlugin(c) ==
    LET c1 == SetDevDependency(EnsureDevDependencies(c), "tailwindcss", "^4.1.11")
    IN  IF c.config.buildTool = "vite"
        THEN LET c2 == SetDevDependency(c1, "@tailwindcss/vite", "^4.1.11")
                 c3 == WriteFile(c2, "src/styles/global.css", "@import \"tailwindcss\";")
                 c4 == CallAddImport(c3, "viteConfigEditor", "viteConfig", TailwindImport)
             IN  CallAddImport(c4, "mainEditor", "main", GlobalCssImport)
        ELSE c1

cssFrameworkTailwind(c) ==
    LET c1 == SetDevDependency(EnsureDevDependencies(c), "tailwindcss", "^4.1.11")
    IN  IF c.config.buildTool = "vite"
        THEN LET c2 == SetDevDependency(c1, "@tailwindcss/vite", "^4.1.11")
                 c3 == WriteFile(c2, "src/styles/global.css", "@import \"tailwindcss\";")
                 c4 == CallAddImport(c3, "viteConfigEditor", "viteConfig", TailwindImport)
                 c5 == CallAddVitePlugin(c4, "viteConfigEditor", "viteConfig", TailwindPlugin)
             IN  CallAddImport(c5, "mainEditor", "main", GlobalCssImport)
        ELSE c1

cssFrameworkUno(c) ==
    LET c1 == SetDevDependency(EnsureDevDependencies(c), "unocss", "^66.3.3")
    IN  IF c.config.buildTool = "vite"
        THEN LET c2 == WriteFile(c1, "uno.config.ts", generateUnoCssConfig)
                 c3 == CallAddImport(c2, "viteConfigEditor", "viteConfig", UnoImport)
                 c4 == CallAddVitePlugin(c3, "viteConfigEditor", "viteConfig", UnoPlugin)
             IN  CallAddImport(c4, "mainEditor", "main", UnoVirtualImport)
        ELSE c1

generateCssFramework(c) ==
    IF Thrown(c) THEN c
    ELSE IF c.config.projectType # "react"
    THEN Throw(c, ValidationError(c.config.projectType))
    ELSE IF c.config.cssFramework = "tailwindcss" THEN cssFrameworkTailwind(c)
    ELSE IF c.config.cssFramework = "unocss" THEN cssFrameworkUno(c)
    ELSE c

(* Handle CSS Preprocessor option *)
generateCssPreprocessor(c) ==
    IF Thrown(c) THEN c
    ELSE IF c.config.projectType # "react"
    THEN Throw(c, ValidationError(c.config.projectType))
    ELSE IF c.config.cssPreprocessor = "less"
    THEN SetDevDependency(EnsureDevDependencies(c), "less", "^4.3.0")
    ELSE IF c.config.cssPreprocessor = "scss"
    THEN SetDevDependency(EnsureDevDependencies(c), "sass", "^1.89.2")
    ELSE c

(* Handle Routing Library option; no caller in the generator module. *)
generateRoutingLibrary(c) ==
    IF Thrown(c) THEN c
    ELSE IF c.config.projectType # "react"
    THEN Throw(c, ValidationError(c.config.projectType))
    ELSE IF c.config.routingLibrary = "react-router"
    THEN LET c1 == SetDependency(EnsureDependencies(c), "react-router", "^7.6.3")
             c2 == WriteFile(c1, "src/router/index" \o c.fileExtension \o "x",
                             generateReactRouterIndex)
         IN  WriteFile(c2, "src/pages/home/index" \o c.fileExtension \o "x",
                       generateDefaultPage)
    ELSE c

-----------------------------------------------------------------------------
(* reactGenerator.generate *)

\* config.targetDir || 'hana-project'
projectNameOf(cfg) == IF Truthy(cfg.targetDir) THEN cfg.targetDir ELSE "hana-project"

appFileNameOf(ext) == "src/app" \o ext \o "x"

mainFileNameOf(ext) == "src/main" \o ext \o "x"

counterFileNameOf(ext) == "src/components/counter." \o ext \o "x"

\* Mutant: the build tool is not consulted before the editor calls.
addReactFragments_Always(c) ==
    CallAddVitePlugin(
        CallAddImport(c, "viteConfigEditor", "viteConfig", ReactImport),
        "viteConfigEditor", "viteConfig", ReactPlugin)

\* the project-type fragments, only for the vite build tool
addReactFragments(c) ==
    IF c.config.buildTool = "vite"
    THEN CallAddVitePlugin(
             CallAddImport(c, "viteConfigEditor", "viteConfig", ReactImport),
             "viteConfigEditor", "viteConfig", ReactPlugin)
    ELSE c

\* 1. Generate src directory structure
generateSrcFiles(c) ==
    LET appFileName == appFileNameOf(c.fileExtension)
        c1 == WriteFile(c, appFileName, generateAppFile)
        c2 == WriteFile(c1, mainFileNameOf(c.fileExtension), generateMainFile(appFileName))
        c3 == WriteFile(c2, counterFileNameOf(c.fileExtension), generateCounterFile)
    IN  IF c.config.language = "typescript"
        THEN WriteFile(c3, "src/vite-env.d.ts", generateViteEnvFile)
        ELSE c3

\* 2. Generate root files
generateRootFiles(c) ==
    LET c1 == WriteFile(c, "public/favicon.svg", generateHanaLogo)
        c2 == WriteFile(c1, "index.html",
                        generateHtmlTemplate("react project",
                                             "/" \o mainFileNameOf(c.fileExtension)))
        c3 == WriteFile(c2, "README.md",
                        generateReadmeTemplate(c.config.projectType,
                                               projectNameOf(c.config),
                                               "A React project"))
    IN  WriteFile(c3, ".gitignore", generateGitignore)

\* 3. Modify package.json
modifyPackageJson(c) ==
    IF Thrown(c) THEN c
    ELSE [c EXCEPT !.packageJson.name = projectNameOf(c.config),
                   !.packageJson.description = "A React project",
                   !.packageJson.version = "1.0.0",
                   !.packageJson.license = "MIT",
                   !.packageJson.engines = Defined(<<<<"node", ">=18.12.0">>>>)]

\* Mutant: the CSS preprocessor is handled before the CSS framework.
generateFeatures_PreprocessorFirst(c) ==
    LET c1 == IF c.config.cssPreprocessor # Undefined
              THEN generateCssPreprocessor(c)
              ELSE c
    IN  IF c.config.cssFramework # Undefined /\ c.config.cssFramework # "none"
        THEN generateCssFramework(c1)
        ELSE c1

\* 4. Features
generateFeatures(c) ==
    LET c1 == IF c.config.cssFramework # Undefined /\ c.config.cssFramework # "none"
              THEN generateCssFramework(c)
              ELSE c
    IN  IF c.config.cssPreprocessor # Undefined
        THEN generateCssPreprocessor(c1)
        ELSE c1

\* Mutant: the projectType check at the head of generate is missing.
generate_NoTypeCheck(c) ==
    generateFeatures(
        modifyPackageJson(
            generateRootFiles(
                generateSrcFiles(
                    addReactFragments(c)))))

generate(c) ==
    IF c.config.projectType # "react"
    THEN Throw(c, ValidationError(c.config.projectType))
    ELSE generateFeatures(
             modifyPackageJson(
                 generateRootFiles(
                     generateSrcFiles(
                         addReactFragments(c)))))

-----------------------------------------------------------------------------
(* The generation pass *)

\* The manifest the context is constructed with.
BarePackageJson ==
    [name |-> "", version |-> "0.0.0", description |-> Undefined,
     type |-> Undefined, main |-> Undefined, license |-> Undefined,
     scripts |-> Absent, engines |-> Absent,
     dependencies |-> Absent, devDependencies |-> Absent]

SeededPackageJson ==
    [name |-> "seed", version |-> "0.1.0", description |-> "seeded",
     type |-> "module", main |-> "index.js", license |-> "ISC",
     scripts |-> Defined(<<<<"dev", "vite">>>>),
     engines |-> Defined(<<<<"node", ">=16">>>>),
     dependencies |-> Defined(<<<<"react", "^19.1.0">>, <<"react-router", "^6.0.0">>>>),
     devDependencies |-> Defined(<<<<"typescript", "^5.8.3">>, <<"tailwindcss", "^3.0.0">>>>)]

InitialPackageJsons == {BarePackageJson, SeededPackageJson}

\* Fragments other generators contribute to the shared targets.
OtherImports == {ReactImport, "import vue from '@vitejs/plugin-vue'"}

OtherPlugins == {ReactPlugin, "vue()"}

EditorFields == {"viteConfigEditor", "mainEditor"}

\* The target key each editor is addressed with.
TargetOf(e) == IF e = "viteConfigEditor" THEN "viteConfig" ELSE "main"

Context ==
    [config |-> config, projectDir |-> projectDir, cwd |-> cwd,
     fileExtension |-> fileExtension,
     packageJson |-> packageJson, files |-> files,
     viteConfigEditor |-> viteConfigEditor, mainEditor |-> mainEditor,
     err |-> err]

Init ==
    /\ config \in Config
    /\ projectDir = "/work/my-app"
    /\ cwd = "/work"
    /\ fileExtension = getFileExtension(config.language)
    /\ packageJson \in InitialPackageJsons
    /\ files = NoFiles
    /\ viteConfigEditor \in {NewEditor, NoEditor}
    /\ mainEditor \in {NewEditor, NoEditor}
    /\ phase = "constructed"
    /\ err = NoError
    /\ adds = 0
    /\ lastCall = NoCall

\* The orchestrator runs the project-type generator.
Generate ==
    /\ phase = "constructed"
    /\ LET r == generate(Context)
       IN  /\ config' = r.config
           /\ projectDir' = r.projectDir
           /\ cwd' = r.cwd
           /\ fileExtension' = r.fileExtension
           /\ packageJson' = r.packageJson
           /\ files' = r.files
           /\ viteConfigEditor' = r.viteConfigEditor
           /\ mainEditor' = r.mainEditor
           /\ err' = r.err
           /\ phase' = IF Thrown(r) THEN "failed" ELSE "generated"
    /\ UNCHANGED <<adds, lastCall>>

\* Another generator calls addImport on one of the context's editors.
OtherAddImport ==
    /\ phase \in {"constructed", "generated", "rendered"}
    /\ adds < MaxAdds
    /\ \E e \in EditorFields, s \in OtherImports :
          LET r == CallAddImport(Context, e, TargetOf(e), s)
          IN  /\ Context[e].present
              /\ viteConfigEditor' = r.viteConfigEditor
              /\ mainEditor' = r.mainEditor
              /\ err' = r.err
              /\ lastCall' = [op |-> "addImport", editor |-> e, key |-> TargetOf(e), arg |-> s]
    /\ adds' = adds + 1
    /\ UNCHANGED <<ctxVars, packageJson, files, phase>>

\* Another generator calls addVitePlugin on one of the context's editors.
OtherAddPlugin ==
    /\ phase \in {"constructed", "generated", "rendered"}
    /\ adds < MaxAdds
    /\ \E e \in EditorFields, s \in OtherPlugins :
          LET r == CallAddVitePlugin(Context, e, TargetOf(e), s)
          IN  /\ Context[e].present
              /\ viteConfigEditor' = r.viteConfigEditor
              /\ mainEditor' = r.mainEditor
              /\ err' = r.err
              /\ lastCall' = [op |-> "addVitePlugin", editor |-> e, key |-> TargetOf(e), arg |-> s]
    /\ adds' = adds + 1
    /\ UNCHANGED <<ctxVars, packageJson, files, phase>>

\* After all generators have run, every editor is rendered once.
Render ==
    /\ phase = "generated"
    /\ err.kind = "none"
    /\ viteConfigEditor' = render(viteConfigEditor)
    /\ mainEditor' = render(mainEditor)
    /\ phase' = "rendered"
    /\ UNCHANGED <<ctxVars, packageJson, files, err, adds, lastCall>>

Next == Generate \/ OtherAddImport \/ OtherAddPlugin \/ Render

Spec == Init /\ [][Next]_vars

-----------------------------------------------------------------------------
(* Properties *)

\* A step in which reactGenerator.generate runs.
GenerateStep == phase = "constructed" /\ phase' # "constructed"

\* The pass completed the generator without an error.
Succeeded == phase \in {"generated", "rendered"}

EditorsUnchanged == viteConfigEditor' = viteConfigEditor /\ mainEditor' = mainEditor

\* C1: for a projectType other than 'react' the generator raises the
\* validation error carrying that projectType and mutates nothing: files,
\* packageJson and both editors are as before the call.
C1_TypeMismatchRejected ==
    [][(GenerateStep /\ config.projectType # "react")
          => /\ phase' = "failed"
             /\ err' = ValidationError(config.projectType)
             /\ files' = files
             /\ packageJson' = packageJson
             /\ EditorsUnchanged]_vars

C1_Witness ==
    /\ phase = "failed"
    /\ config.projectType = "vue"
    /\ err = ValidationError("vue")
    /\ viteConfigEditor.store["viteConfig"].imports # <<>>
    /\ packageJson = SeededPackageJson

\* C2: with buildTool 'vite' and viteConfigEditor or mainEditor absent, the
\* generator raises a validation error before any file is written and before
\* any packageJson field changes, for every cssFramework value.
C2_MissingEditorRejectedFirst ==
    [][(GenerateStep /\ config.projectType = "react" /\ config.buildTool = "vite"
          /\ (~viteConfigEditor.present \/ ~mainEditor.present))
          => /\ phase' = "failed"
             /\ err'.kind = "validation"
             /\ files' = files
             /\ packageJson' = packageJson]_vars

\* path ends with suffix
EndsWith(path, suffix) ==
    /\ Len(path) >= Len(suffix)
    /\ SubSeq(path, Len(path) - Len(suffix) + 1, Len(path)) = suffix

\* C3: after a successful generate, src/vite-env.d.ts is present iff the
\* language is typescript, src/app.{ext}x, src/main.{ext}x and
\* src/components/counter.{ext}x are keys of files (ext = ts or js by
\* language), and a javascript project gets no file ending in .ts.
C3_PathsFollowLanguage ==
    Succeeded =>
        LET ext == IF config.language = "typescript" THEN "ts" ELSE "js"
        IN  /\ ("src/vite-env.d.ts" \in DOMAIN files) <=> (config.language = "typescript")
            /\ {"src/app." \o ext \o "x", "src/main." \o ext \o "x",
                "src/components/counter." \o ext \o "x"} \subseteq DOMAIN files
            /\ config.language = "javascript"
                  => \A p \in DOMAIN files : ~EndsWith(p, ".ts")

\* Value of key k in an optional object, Undefined when missing.
ValueOf(field, k) ==
    IF field.defined /\ HasKey(field.entries, k) THEN Get(field.entries, k) ELSE Undefined

\* Position of key k in an object (0 when missing).
IndexOfKey(obj, k) ==
    IF HasKey(obj, k) THEN CHOOSE i \in 1..Len(obj) : obj[i][1] = k ELSE 0

\* Position of string s in a sequence (0 when missing).
IndexOf(seq, s) ==
    IF Contains(seq, s) THEN CHOOSE i \in 1..Len(seq) : seq[i] = s ELSE 0

CssFrameworkFiles == {"src/styles/global.css", "uno.config.ts"}

CssFrameworkFragments ==
    {TailwindImport, TailwindPlugin, GlobalCssImport, UnoImport, UnoPlugin, UnoVirtualImport}

CssFrameworkPackages == {"tailwindcss", "@tailwindcss/vite", "unocss"}

\* Every fragment held by an editor, over all its targets.
FragmentsOf(editor) ==
    UNION {{editor.store[k].imports[i] : i \in 1..Len(editor.store[k].imports)}
             \cup {editor.store[k].plugins[i] : i \in 1..Len(editor.store[k].plugins)}
           : k \in Targets}

\* C4: with buildTool 'vite' and both editors present, generate succeeds and
\* the CSS framework contributes exactly its reference set: tailwindcss the
\* global.css file, its vite import and plugin and both devDependencies at
\* ^4.1.11; unocss the uno.config.ts file, its vite import and plugin, the
\* virtual:uno.css import of the main editor and its devDependency; 'none'
\* or unset adds none of these files, fragments or dependencies.
C4_CssFrameworkReferenceSet ==
    [][(GenerateStep /\ config.projectType = "react" /\ config.buildTool = "vite"
          /\ viteConfigEditor.present /\ mainEditor.present)
          => LET vite == viteConfigEditor'.store["viteConfig"]
                 main == mainEditor'.store["main"]
                 dev == packageJson'.devDependencies
             IN  /\ phase' = "generated"
                 /\ config.cssFramework = "tailwindcss" =>
                       /\ "src/styles/global.css" \in DOMAIN files'
                       /\ files'["src/styles/global.css"] = "@import \"tailwindcss\";"
                       /\ Contains(vite.imports, TailwindImport)
                       /\ Contains(vite.plugins, TailwindPlugin)
                       /\ ValueOf(dev, "tailwindcss") = "^4.1.11"
                       /\ ValueOf(dev, "@tailwindcss/vite") = "^4.1.11"
                 /\ config.cssFramework = "unocss" =>
                       /\ "uno.config.ts" \in DOMAIN files'
                       /\ Contains(vite.imports, UnoImport)
                       /\ Contains(vite.plugins, UnoPlugin)
                       /\ Contains(main.imports, UnoVirtualImport)
                       /\ ValueOf(dev, "unocss") # Undefined
                 /\ config.cssFramework \in {"none", Undefined} =>
                       /\ DOMAIN files' \cap CssFrameworkFiles = {}
                       /\ FragmentsOf(viteConfigEditor') \cap CssFrameworkFragments = {}
                       /\ FragmentsOf(mainEditor') \cap CssFrameworkFragments = {}
                       /\ \A k \in CssFrameworkPackages :
                             ValueOf(dev, k) = ValueOf(packageJson.devDependencies, k)]_vars

C4_Witness ==
    /\ phase = "generated"
    /\ config.buildTool = "vite"
    /\ config.cssFramework = "unocss"
    /\ Contains(mainEditor.store["main"].imports, UnoVirtualImport)
    /\ Contains(viteConfigEditor.store["viteConfig"].plugins, UnoPlugin)
    /\ "uno.config.ts" \in DOMAIN files
    /\ ValueOf(packageJson.devDependencies, "unocss") = "^66.3.3"

\* The editor held by a context field, before and after a step.
Ed(e) == IF e = "viteConfigEditor" THEN viteConfigEditor ELSE mainEditor

EdNext(e) == IF e = "viteConfigEditor" THEN viteConfigEditor' ELSE mainEditor'

IsPrefix(a, b) == Len(a) <= Len(b) /\ SubSeq(b, 1, Len(a)) = a

\* A step in which another generator calls an Editor method.
OtherCallStep == adds' = adds + 1

\* C5: on every editor target the import and the plugin sequence hold no
\* duplicate and keep the order of first add: a step only appends, an add
\* of a new string appends it, an add of a string already there changes
\* nothing, and an add changes neither the other sequence of its target nor
\* any other target or editor.
C5_OrderedSetAdds ==
    [][/\ \A e \in EditorFields, k \in Targets :
             /\ NoDuplicates(EdNext(e).store[k].imports)
             /\ NoDuplicates(EdNext(e).store[k].plugins)
             /\ IsPrefix(Ed(e).store[k].imports, EdNext(e).store[k].imports)
             /\ IsPrefix(Ed(e).store[k].plugins, EdNext(e).store[k].plugins)
       /\ (OtherCallStep /\ ~Ed(lastCall'.editor).rendered) =>
             LET e == lastCall'.editor
                 k == lastCall'.key
                 s == lastCall'.arg
                 old == Ed(e).store[k]
                 new == EdNext(e).store[k]
             IN  /\ lastCall'.op = "addImport" =>
                       /\ new.imports = IF Contains(old.imports, s) THEN old.imports
                                        ELSE Append(old.imports, s)
                       /\ new.plugins = old.plugins
                 /\ lastCall'.op = "addVitePlugin" =>
                       /\ new.plugins = IF Contains(old.plugins, s) THEN old.plugins
                                        ELSE Append(old.plugins, s)
                       /\ new.imports = old.imports
                 /\ \A k2 \in Targets \ {k} : EdNext(e).store[k2] = Ed(e).store[k2]
                 /\ \A e2 \in EditorFields \ {e} : EdNext(e2) = Ed(e2)]_vars

\* The generator and another generator both added the React import: one
\* occurrence, ahead of the CSS framework's import.
C5_Witness ==
    /\ phase = "generated"
    /\ adds = 1
    /\ lastCall.op = "addImport"
    /\ lastCall.editor = "viteConfigEditor"
    /\ lastCall.arg = ReactImport
    /\ viteConfigEditor.store["viteConfig"].imports = <<ReactImport, TailwindImport>>

GeneratorPackages == CssFrameworkPackages \cup {"less", "sass"}

\* C7: generate leaves config, projectDir, cwd and fileExtension as they
\* were; in packageJson the fields type, main and scripts are untouched and
\* dependencies/devDependencies are merged into: an entry already present
\* under a key the generator does not write keeps its value.
C7_FrameOfGenerate ==
    [][GenerateStep
          => /\ config' = config
             /\ projectDir' = projectDir
             /\ cwd' = cwd
             /\ fileExtension' = fileExtension
             /\ packageJson'.type = packageJson.type
             /\ packageJson'.main = packageJson.main
             /\ packageJson'.scripts = packageJson.scripts
             /\ DOMAIN packageJson' = DOMAIN packageJson
             /\ \A k \in Keys(packageJson.dependencies.entries) :
                   ValueOf(packageJson'.dependencies, k)
                       = ValueOf(packageJson.dependencies, k)
             /\ \A k \in Keys(packageJson.devDependencies.entries) \ GeneratorPackages :
                   ValueOf(packageJson'.devDependencies, k)
                       = ValueOf(packageJson.devDependencies, k)]_vars

C7_Witness ==
    /\ phase = "generated"
    /\ packageJson.name = "my-app"
    /\ packageJson.scripts = SeededPackageJson.scripts
    /\ packageJson.type = "module"
    /\ ValueOf(packageJson.dependencies, "react") = "^19.1.0"
    /\ ValueOf(packageJson.devDependencies, "typescript") = "^5.8.3"
    /\ ValueOf(packageJson.devDependencies, "tailwindcss") = "^4.1.11"
    /\ ValueOf(packageJson.devDependencies, "sass") = "^1.89.2"

\* The viteConfig fragments a pass over empty editors yields, by config.
ExpectedViteImports(cfg) ==
    <<ReactImport>> \o (IF cfg.cssFramework = "tailwindcss" THEN <<TailwindImport>>
                        ELSE IF cfg.cssFramework = "unocss" THEN <<UnoImport>>
                        ELSE <<>>)

ExpectedVitePlugins(cfg) ==
    <<ReactPlugin>> \o (IF cfg.cssFramework = "tailwindcss" THEN <<TailwindPlugin>>
                        ELSE IF cfg.cssFramework = "unocss" THEN <<UnoPlugin>>
                        ELSE <<>>)

FrameworkPackage(cfg) == IF cfg.cssFramework = "tailwindcss" THEN "tailwindcss" ELSE "unocss"

PreprocessorPackage(cfg) == IF cfg.cssPreprocessor = "less" THEN "less" ELSE "sass"

\* C8: in a successful vite pass over empty editors the React import and
\* plugin come first, ahead of the CSS framework's, and the sequences are a
\* function of the config alone; the CSS-framework step runs before the
\* CSS-preprocessor step, so the framework's devDependency is inserted
\* ahead of the preprocessor's.
C8_ProjectTypeFragmentsFirst ==
    [][(GenerateStep /\ phase' = "generated")
          => /\ (config.buildTool = "vite"
                   /\ viteConfigEditor.store = EmptyStore
                   /\ mainEditor.store = EmptyStore) =>
                   LET vite == viteConfigEditor'.store["viteConfig"]
                   IN  /\ vite.imports = ExpectedViteImports(config)
                       /\ vite.plugins = ExpectedVitePlugins(config)
                       /\ IndexOf(vite.imports, ReactImport) = 1
                       /\ IndexOf(vite.plugins, ReactPlugin) = 1
                       /\ \A s \in CssFrameworkFragments :
                             /\ Contains(vite.imports, s) => IndexOf(vite.imports, s) > 1
                             /\ Contains(vite.plugins, s) => IndexOf(vite.plugins, s) > 1
             /\ (config.cssFramework \in {"tailwindcss", "unocss"}
                   /\ config.cssPreprocessor \in {"less", "scss"}) =>
                   LET dev == packageJson'.devDependencies.entries
                   IN  /\ IndexOfKey(dev, FrameworkPackage(config)) > 0
                       /\ IndexOfKey(dev, FrameworkPackage(config))
                            < IndexOfKey(dev, PreprocessorPackage(config))]_vars

C8_Witness ==
    /\ phase = "generated"
    /\ adds = 0
    /\ viteConfigEditor.store["viteConfig"].imports = <<ReactImport, UnoImport>>
    /\ viteConfigEditor.store["viteConfig"].plugins = <<ReactPlugin, UnoPlugin>>
    /\ packageJson.devDependencies.entries = <<<<"unocss", "^66.3.3">>, <<"less", "^4.3.0">>>>

\* C9: for a React config whose buildTool is not 'vite', generate calls no
\* editor method and completes without error whether or not the editors
\* exist; tailwindcss/unocss then add only their own devDependency and
\* neither src/styles/global.css nor uno.config.ts.
C9_EditorsOnlyForVite ==
    [][(GenerateStep /\ config.projectType = "react" /\ config.buildTool # "vite")
          => /\ phase' = "generated"
             /\ err' = NoError
             /\ EditorsUnchanged
             /\ DOMAIN files' \cap CssFrameworkFiles = {}
             /\ config.cssFramework = "tailwindcss" =>
                   ValueOf(packageJson'.devDependencies, "tailwindcss") = "^4.1.11"
             /\ config.cssFramework = "unocss" =>
                   ValueOf(packageJson'.devDependencies, "unocss") = "^66.3.3"
             /\ \A k \in CssFrameworkPackages :
                   \/ ValueOf(packageJson'.devDependencies, k)
                        = ValueOf(packageJson.devDependencies, k)
                   \/ (k = config.cssFramework /\ k \in {"tailwindcss", "unocss"})]_vars

C9_Witness ==
    /\ phase = "generated"
    /\ config.buildTool = "webpack"
    /\ config.cssFramework = "tailwindcss"
    /\ config.cssPreprocessor = "scss"
    /\ ~viteConfigEditor.present
    /\ ~mainEditor.present
    /\ packageJson.devDependencies.entries
         = <<<<"tailwindcss", "^4.1.11">>, <<"sass", "^1.89.2">>>>

\* C10: with routingLibrary 'react-router', after generate
\* packageJson.dependencies['react-router'] is '^7.6.3' and files holds the
\* router index file and the default home page file.
C10_RoutingLibraryContributes ==
    (Succeeded /\ config.routingLibrary = "react-router")
        => /\ ValueOf(packageJson.dependencies, "react-router") = "^7.6.3"
           /\ {"src/router/index" \o fileExtension \o "x",
               "src/pages/home/index" \o fileExtension \o "x"} \subseteq DOMAIN files

====
